---- MODULE Spec2Model ----
(***************************************************************************)
(* Model of the face service: the named-pipe session server (IpcServer),   *)
(* its command dispatcher, the comparator (FaceRecognizer.compare), the    *)
(* quality validator and the liveness engine (LivenessDetector).           *)
(*                                                                         *)
(* Floating point values are kept in hundredths: a confidence of 0.8 is   *)
(* 80, an eye aspect ratio of 1.0 is 100, an angle of 5.0 degrees is 500,  *)
(* a similarity of 0.6 is 60. Quality scores are kept in units of 1/One.   *)
(***************************************************************************)
EXTENDS Integers, Sequences, FiniteSets, TLC

\* ------------------------------------------------------------------------
\* Bounds
\* ------------------------------------------------------------------------
MaxThreads == 2
history_size == 3
MaxFrames == 30

Threads == 1..MaxThreads

\* ------------------------------------------------------------------------
\* Program constants
\* ------------------------------------------------------------------------
WINDOWS_AVAILABLE == TRUE
ERROR_BROKEN_PIPE == 109
ERROR_PIPE_BUSY == 231
OTHER_PIPE_ERROR == 232
MOVEMENT_THRESHOLD == 500
OPEN_EAR == 100

VARIABLES
    running,        \* IpcServer.running
    server_thread,  \* IpcServer.server_thread (0 is None)
    pc,             \* position of every serving thread
    open,           \* the thread's pipe_handle is an open pipe instance
    err,            \* the exception a thread is handling
    chan,           \* the served connection: what happened last on it
    last,           \* the last message taken from the pipe and its outcome
    stop_pc,        \* position of the caller of stop()
    join_target,    \* the thread stop() is joining
    stopReturned,   \* a stop() has returned and start() was not called since
    afterStop,      \* what the serving threads did since that stop() returned
    log,            \* the level of the record the last step logged
    blink_threshold,    \* LivenessDetector.blink_threshold (0: no detector yet)
    eye_history,        \* LivenessDetector.eye_history
    head_pose_history,  \* LivenessDetector.head_pose_history
    ears,               \* the last two EAR samples recorded, oldest first
    result,             \* what the last liveness call did
    call,               \* the pure function called last, its inputs and result
    frame_skip,         \* PerformanceOptimizer.frame_skip
    frame_count         \* PerformanceOptimizer.frame_count

vars == <<running, server_thread, pc, open, err, chan, last,
          stop_pc, join_target, stopReturned, afterStop, log,
          blink_threshold, eye_history, head_pose_history, ears, result,
          call, frame_skip, frame_count>>

serverVars == <<running, server_thread, pc, open, err, chan, last,
                stop_pc, join_target, stopReturned, afterStop, log>>

livenessVars == <<blink_threshold, eye_history, head_pose_history, ears, result>>

optimizerVars == <<frame_skip, frame_count>>

\* ------------------------------------------------------------------------
\* Messages
\* ------------------------------------------------------------------------
Commands == {"absent", "DETECT", "detect", "EXTRACT_EMBEDDING", "COMPARE",
             "ENROLL_CAPTURE", "ping", "number", "null"}

Upper(s) ==
    CASE s = "detect" -> "DETECT"
      [] s = "ping" -> "PING"
      [] s = "absent" -> ""
      [] OTHER -> s

IsString(c) == c \notin {"number", "null"}

FrameData == {"absent", "empty", "undecodable", "image"}

Parameters ==
    {[kind |-> k, bbox |-> "absent", embedding |-> "absent", threshold |-> "absent"] :
        k \in {"absent", "non_map"}}
    \cup [kind : {"map"},
          bbox : {"absent", "box", "bad", "number"},
          embedding : {"absent", "same_length", "other_length", "bad"},
          threshold : {"absent", "number", "bad"}]

Objects == [json : {"object"}, command : Commands, frame_data : FrameData,
            parameters : Parameters]

NonObjects == {[json |-> j, command |-> "absent", frame_data |-> "absent",
                parameters |-> [kind |-> "absent", bbox |-> "absent",
                                embedding |-> "absent", threshold |-> "absent"]] :
                  j \in {"empty", "bad_utf8", "bad_json", "non_object"}}

Payloads == NonObjects \cup Objects

\* what the detector and the recognizer do on this request
Collaborators == [detect : {"raises", "no_faces", "faces"},
                  embed : {"raises", "none", "embedding"}]

\* ------------------------------------------------------------------------
\* Command dispatcher
\* ------------------------------------------------------------------------
\* a response: names is the command text an error message quotes, calls
\* the collaborators the handler invoked, data the result of a comparison
NoData == [present |-> FALSE, match |-> FALSE, similarity |-> 0, nan |-> FALSE,
           threshold |-> 0]

\* no face (get_largest_face returning None)
NoFace == [none |-> TRUE, bbox |-> [w |-> 0, h |-> 0], confidence |-> 0,
           landmarks |-> "none"]

\* what an ENROLL_CAPTURE response carries when no face was captured
NoCapture == [present |-> FALSE, crop |-> NoFace.bbox, bbox |-> NoFace.bbox,
              confidence |-> 0, landmarks |-> "none"]

Success == [raised |-> FALSE, success |-> TRUE, error |-> "", encodable |-> TRUE,
            names |-> "", calls |-> {}, data |-> NoData, capture |-> NoCapture]

Failure(reason) == [raised |-> FALSE, success |-> FALSE, error |-> reason,
                    encodable |-> TRUE, names |-> "", calls |-> {},
                    data |-> NoData, capture |-> NoCapture]

Raise(what) == [raised |-> TRUE, success |-> FALSE, error |-> what,
                encodable |-> FALSE, names |-> "", calls |-> {},
                data |-> NoData, capture |-> NoCapture]

Called(response, collaborators) == [response EXCEPT !.calls = collaborators]

\* _decode_frame handing every non-empty frame_data on as a frame
_decode_frame_unchecked(frame_data) ==
    IF frame_data \in {"image", "undecodable"} THEN "frame" ELSE "None"

\* _decode_frame: None unless the data is a decodable image
_decode_frame(frame_data) == IF frame_data = "image" THEN "frame" ELSE "None"

\* FaceRecognizer.get_embedding: every fault inside it ends as None
get_embedding(frame, bbox, col) ==
    IF bbox = "bad" THEN "None"
    ELSE IF col.embed = "embedding" THEN "embedding" ELSE "None"

\* embeddings: None, or a vector of integers (the norms used are whole)
None == [none |-> TRUE, v |-> <<>>]

Vec(v) == [none |-> FALSE, v |-> v]

RECURSIVE Dot(_, _)
Dot(a, b) == IF a = <<>> THEN 0 ELSE a[1] * b[1] + Dot(Tail(a), Tail(b))

\* np.linalg.norm
Norm(v) == CHOOSE n \in 0..Dot(v, v) : n * n = Dot(v, v)

NoMatch == [is_match |-> FALSE, similarity |-> 0, nan |-> FALSE, numpy |-> FALSE]

\* compare with a threshold that is itself a match
compare_inclusive(embedding1, embedding2, threshold) ==
    IF embedding1.none \/ embedding2.none THEN NoMatch
    ELSE IF Len(embedding1.v) # Len(embedding2.v) THEN NoMatch
    ELSE IF Norm(embedding1.v) = 0 \/ Norm(embedding2.v) = 0
         THEN [is_match |-> FALSE, similarity |-> 0, nan |-> TRUE, numpy |-> TRUE]
    ELSE LET similarity == (Dot(embedding1.v, embedding2.v) * 100)
                              \div (Norm(embedding1.v) * Norm(embedding2.v))
         IN  [is_match |-> similarity >= threshold, similarity |-> similarity,
              nan |-> FALSE, numpy |-> TRUE]

\* FaceRecognizer.compare, similarity in hundredths. The except branch
\* returns the Python values (False, 0.0); the try branch returns a numpy
\* bool, and dividing by a zero norm gives nan without raising; np.dot
\* raises on vectors of different lengths
compare(embedding1, embedding2, threshold) ==
    IF embedding1.none \/ embedding2.none THEN NoMatch
    ELSE IF Len(embedding1.v) # Len(embedding2.v) THEN NoMatch
    ELSE IF Norm(embedding1.v) = 0 \/ Norm(embedding2.v) = 0
         THEN [is_match |-> FALSE, similarity |-> 0, nan |-> TRUE, numpy |-> TRUE]
    ELSE LET similarity == (Dot(embedding1.v, embedding2.v) * 100)
                              \div (Norm(embedding1.v) * Norm(embedding2.v))
         IN  [is_match |-> similarity > threshold, similarity |-> similarity,
              nan |-> FALSE, numpy |-> TRUE]

\* the embedding the recognizer finds in the frame
frame_embedding == Vec(<<3, 4>>)

\* np.array(parameters['embedding'], dtype=np.float32)
np_array(embedding) ==
    IF embedding = "same_length" THEN Vec(<<1, 0>>) ELSE Vec(<<1, 0, 0>>)

DEFAULT_THRESHOLD == 60

\* parameters.get('threshold', 0.6)
ThresholdOf(threshold) ==
    IF threshold = "absent" THEN DEFAULT_THRESHOLD ELSE 50

_handle_detect(frame_data, col) ==
    IF _decode_frame(frame_data) = "None" THEN Failure("Invalid frame data")
    ELSE IF col.detect = "raises" THEN Called(Raise("detector"), {"detector"})
    ELSE Called(Success, {"detector"})

_handle_extract_embedding(frame_data, parameters, col) ==
    IF _decode_frame(frame_data) = "None" THEN Failure("Invalid frame data")
    ELSE IF parameters.kind = "non_map" THEN Raise("TypeError")
    ELSE IF parameters.bbox = "number" THEN Raise("TypeError")
    ELSE IF get_embedding("frame", parameters.bbox, col) = "None"
         THEN Called(Failure("No face detected"), {"recognizer"})
    ELSE Called(Success, {"recognizer"})

_handle_compare(frame_data, parameters, col) ==
    IF _decode_frame(frame_data) = "None" THEN Failure("Invalid frame data")
    ELSE IF parameters.kind = "non_map" THEN Raise("TypeError")
    ELSE IF parameters.embedding = "absent" THEN Failure("Missing embedding parameter")
    ELSE IF get_embedding("frame", "absent", col) = "None"
         THEN Called(Failure("No face detected in frame"), {"recognizer"})
    ELSE IF parameters.embedding = "bad"
         THEN Called(Raise("ValueError"), {"recognizer"})
    ELSE IF parameters.threshold = "bad"
         THEN Called(Raise("TypeError"), {"recognizer"})
    ELSE LET threshold == ThresholdOf(parameters.threshold)
             r == compare(frame_embedding, np_array(parameters.embedding),
                          threshold)
         IN  [Success EXCEPT !.encodable = ~r.numpy,
                             !.calls = {"recognizer"},
                             !.data = [present |-> TRUE, match |-> r.is_match,
                                       similarity |-> r.similarity,
                                       nan |-> r.nan,
                                       threshold |-> threshold]]

Area(face) == face.bbox.w * face.bbox.h

\* get_largest_face keeping the last of the faces of maximal area
get_largest_face_last(faces) ==
    LET best[i \in 0..Len(faces)] ==
            IF i = 0 THEN NoFace
            ELSE IF i = 1 THEN faces[1]
            ELSE IF Area(faces[i]) >= Area(best[i - 1]) THEN faces[i]
            ELSE best[i - 1]
    IN  best[Len(faces)]

\* FaceDetector.get_largest_face: None for an empty list, else max() over
\* the bbox area, which keeps the first of the maximal elements
get_largest_face(faces) ==
    LET best[i \in 0..Len(faces)] ==
            IF i = 0 THEN NoFace
            ELSE IF i = 1 THEN faces[1]
            ELSE IF Area(faces[i]) > Area(best[i - 1]) THEN faces[i]
            ELSE best[i - 1]
    IN  best[Len(faces)]

\* the face list a detector that finds faces returns on the request
a_face == [none |-> FALSE, bbox |-> [w |-> 250, h |-> 250],
           confidence |-> 95, landmarks |-> "c"]

\* FaceDetector.detect, as the collaborator behaves on this request
detect(col) == IF col.detect = "faces" THEN <<a_face>> ELSE <<>>

\* _handle_enroll_capture once the detector has returned faces
enroll_faces(faces, col) ==
    IF faces = <<>> THEN Called(Failure("No face detected"), {"detector"})
    ELSE LET largest_face == get_largest_face(faces)
         IN  IF largest_face.none
             THEN Called(Failure("No valid face detected"), {"detector"})
             ELSE IF get_embedding("frame", "box", col) = "None"
             THEN Called(Failure("Failed to extract embedding"),
                         {"detector", "recognizer"})
             ELSE [Success EXCEPT
                      !.calls = {"detector", "recognizer"},
                      !.capture = [present |-> TRUE,
                                   crop |-> largest_face.bbox,
                                   bbox |-> largest_face.bbox,
                                   confidence |-> largest_face.confidence,
                                   landmarks |-> largest_face.landmarks]]

_handle_enroll_capture(frame_data, parameters, col) ==
    IF _decode_frame(frame_data) = "None" THEN Failure("Invalid frame data")
    ELSE IF col.detect = "raises" THEN Called(Raise("detector"), {"detector"})
    ELSE enroll_faces(detect(col), col)

\* the unknown-command branch quotes the upper-cased command
Dispatch(command, frame_data, parameters, col) ==
    CASE command = "DETECT" -> _handle_detect(frame_data, col)
      [] command = "EXTRACT_EMBEDDING" -> _handle_extract_embedding(frame_data, parameters, col)
      [] command = "COMPARE" -> _handle_compare(frame_data, parameters, col)
      [] command = "ENROLL_CAPTURE" -> _handle_enroll_capture(frame_data, parameters, col)
      [] OTHER -> [Failure("Unknown command") EXCEPT !.names = command]

\* _process_message letting a handler's exception through
_process_message_unguarded(message, col) ==
    IF ~IsString(message.command) THEN Raise("AttributeError")
    ELSE Dispatch(Upper(message.command), message.frame_data,
                  message.parameters, col)

\* _process_message: the command is read before the try block is entered
_process_message(message, col) ==
    IF ~IsString(message.command) THEN Raise("AttributeError")
    ELSE LET r == Dispatch(Upper(message.command), message.frame_data,
                           message.parameters, col)
         IN  IF r.raised THEN Called(Failure("exception"), r.calls) ELSE r

\* ------------------------------------------------------------------------
\* Session server: one message on a connection
\* ------------------------------------------------------------------------
NoMessage == [msg |-> "none", dispatch |-> "none", sent |-> "nothing",
              closed |-> FALSE, before |-> "none"]

\* json.loads(data.decode('utf-8')) followed by _process_message and
\* json.dumps: what becomes of one non-empty message, before it is written
Answer(payload, col) ==
    CASE payload.json = "bad_utf8" ->
            [dispatch |-> "none", fault |-> "exception", flush |-> FALSE,
             logs |-> "none"]
      [] payload.json = "bad_json" ->
            [dispatch |-> "none", fault |-> "none", flush |-> FALSE,
             logs |-> "error"]
      [] payload.json = "non_object" ->
            [dispatch |-> "raised", fault |-> "exception", flush |-> FALSE,
             logs |-> "none"]
      [] OTHER ->
            LET r == _process_message(payload, col)
            IN  IF r.raised
                THEN [dispatch |-> "raised", fault |-> "exception",
                      flush |-> FALSE, logs |-> "none"]
                ELSE [dispatch |-> IF r.success THEN "success" ELSE "failure",
                      fault |-> IF r.encodable THEN "none" ELSE "exception",
                      flush |-> TRUE,
                      logs |-> IF r.error = "exception" THEN "error" ELSE "none"]

Answers == {[msg |-> p.json] @@ Answer(p, c) :
               p \in {q \in Payloads : q.json # "empty"}, c \in Collaborators}

TransportErrors == {ERROR_BROKEN_PIPE, OTHER_PIPE_ERROR}

\* ------------------------------------------------------------------------
\* Liveness engine (LivenessDetector)
\* ------------------------------------------------------------------------
BlinkThresholds == {30, 150}

Methods == {"blink", "movement", "both", "texture"}

\* landmarks of one frame: how many are named right_eye and left_eye, and
\* the offset (dx, dy) of the first left_eye from the first right_eye
Landmarks == [right : {0, 1, 4}, left : {0, 1, 4}, dx : {100}, dy : {0, 8, 9}]

\* np.degrees(np.arctan2(dy, dx)) in hundredths of a degree
Atan2Deg(dy, dx) ==
    CASE dx = 100 /\ dy = 0 -> 0
      [] dx = 100 /\ dy = 8 -> 457
      [] dx = 100 /\ dy = 9 -> 514

Abs(x) == IF x < 0 THEN -x ELSE x

\* a bounded history that drops its newest entry to make room
PushEvictsNewest(history, x) ==
    IF Len(history) < history_size
    THEN Append(history, x)
    ELSE Append(SubSeq(history, 1, history_size - 1), x)

\* deque(maxlen=history_size).append
Push(history, x) ==
    IF Len(history) < history_size
    THEN Append(history, x)
    ELSE Append(Tail(history), x)

\* calculate_eye_aspect_ratio on a cluster of n landmarks: points holds
\* at most 4 entries and points[5] is read
calculate_eye_aspect_ratio(n) ==
    IF n < 4
    THEN [raised |-> FALSE, ear |-> OPEN_EAR]
    ELSE LET points == IF n < 4 THEN n ELSE 4
         IN  IF 5 >= points
             THEN [raised |-> TRUE, ear |-> 0]
             ELSE [raised |-> FALSE, ear |-> OPEN_EAR]

\* detect_blink without the test of the sample before
BlinkEdgeNoPrevious(history, avg_ear, threshold) ==
    /\ Len(history) >= 2
    /\ avg_ear < threshold

\* the falling edge test of detect_blink on the history after the append
BlinkEdge(history, avg_ear, threshold) ==
    /\ Len(history) >= 2
    /\ avg_ear < threshold
    /\ history[Len(history) - 1] >= threshold

detect_blink(landmarks, history, threshold) ==
    IF landmarks.right = 0 \/ landmarks.left = 0
    THEN [raised |-> FALSE, value |-> FALSE, history |-> history, recorded |-> FALSE]
    ELSE LET right_ear == calculate_eye_aspect_ratio(landmarks.right)
             left_ear == calculate_eye_aspect_ratio(landmarks.left)
         IN  IF right_ear.raised \/ left_ear.raised
             THEN [raised |-> TRUE, value |-> FALSE, history |-> history,
                   recorded |-> FALSE]
             ELSE LET avg_ear == (right_ear.ear + left_ear.ear) \div 2
                      h == Push(history, avg_ear)
                  IN  [raised |-> FALSE, value |-> BlinkEdge(h, avg_ear, threshold),
                       history |-> h, recorded |-> TRUE]

\* has_movement of detect_head_movement on the history after the append
HasMovement(history) ==
    /\ Len(history) >= 3
    /\ Abs(history[Len(history)] - history[1]) > MOVEMENT_THRESHOLD

\* detect_head_movement: angle_change is assigned only with 3 or more
\* entries and read with 2 or more
detect_head_movement(landmarks, history) ==
    IF landmarks.right = 0 \/ landmarks.left = 0
    THEN [raised |-> FALSE, value |-> FALSE, history |-> history]
    ELSE LET h == Push(history, Atan2Deg(landmarks.dy, landmarks.dx))
         IN  IF Len(h) >= 2 /\ ~(Len(h) >= 3)
             THEN [raised |-> TRUE, value |-> FALSE, history |-> h]
             ELSE [raised |-> FALSE, value |-> HasMovement(h), history |-> h]

Max(a, b) == IF a > b THEN a ELSE b

\* check_liveness escalating under method both without looking at the blink
ConfidenceEscalatesEarly(method, blink, movement) ==
    LET c1 == IF blink = "yes" THEN 80 ELSE 0
        c2 == IF movement = "yes" THEN Max(c1, 70) ELSE c1
    IN  IF method = "both" /\ movement = "yes" THEN 95 ELSE c2

\* the confidence check_liveness ends with, from what the sub-checks returned
\* ("absent": the sub-check was not run)
Confidence(method, blink, movement) ==
    LET c1 == IF blink = "yes" THEN 80 ELSE 0
        c2 == IF movement = "yes" THEN Max(c1, 70) ELSE c1
    IN  IF method = "both" /\ blink = "yes" /\ movement = "yes" THEN 95 ELSE c2

YesNo(b) == IF b THEN "yes" ELSE "no"

NoCall == [op |-> "none", status |-> "none", eyes |-> FALSE, method |-> "none",
           value |-> FALSE, confidence |-> 0, blink |-> "absent",
           movement |-> "absent", dropped |-> -1]

\* the entry a deque(maxlen=history_size) gives up when one more is appended
\* (-1: none)
Dropped(history) ==
    IF Len(history) = history_size THEN history[1] ELSE -1

BothEyes(landmarks) == landmarks.right > 0 /\ landmarks.left > 0

\* the last two recorded EAR samples after one more is recorded
Recorded(e, x) == IF e = <<>> THEN <<x>> ELSE <<e[Len(e)], x>>

\* LivenessDetector.__init__
NewDetector ==
    /\ \E th \in BlinkThresholds : blink_threshold' = th
    /\ eye_history' = <<>>
    /\ head_pose_history' = <<>>
    /\ ears' = <<>>
    /\ result' = NoCall
    /\ UNCHANGED <<serverVars, call, optimizerVars>>

DetectBlink ==
    /\ blink_threshold # 0
    /\ \E lm \in Landmarks :
         LET r == detect_blink(lm, eye_history, blink_threshold)
         IN  /\ eye_history' = r.history
             /\ ears' = IF r.recorded THEN Recorded(ears, r.history[Len(r.history)])
                        ELSE ears
             /\ result' = [NoCall EXCEPT !.op = "detect_blink",
                              !.status = IF r.raised THEN "raised" ELSE "returned",
                              !.eyes = r.recorded,
                              !.value = r.value]
    /\ UNCHANGED <<blink_threshold, head_pose_history>>
    /\ UNCHANGED <<serverVars, call, optimizerVars>>

DetectHeadMovement ==
    /\ blink_threshold # 0
    /\ \E lm \in Landmarks :
         LET r == detect_head_movement(lm, head_pose_history)
         IN  /\ head_pose_history' = r.history
             /\ result' = [NoCall EXCEPT !.op = "detect_head_movement",
                              !.status = IF r.raised THEN "raised" ELSE "returned",
                              !.eyes = BothEyes(lm),
                              !.value = r.value,
                              !.dropped = IF BothEyes(lm)
                                          THEN Dropped(head_pose_history)
                                          ELSE -1]
    /\ UNCHANGED <<blink_threshold, eye_history, ears>>
    /\ UNCHANGED <<serverVars, call, optimizerVars>>

\* check_liveness: the blink part, then the movement part, then the result
CheckLiveness(method, lm) ==
    /\ blink_threshold # 0
    /\ LET wantBlink == method = "blink" \/ method = "both"
           wantMove == method = "movement" \/ method = "both"
           b == detect_blink(lm, eye_history, blink_threshold)
           m == detect_head_movement(lm, head_pose_history)
           blinkRan == wantBlink /\ ~b.raised
           moveRan == wantMove /\ ~(wantBlink /\ b.raised)
           raised == (wantBlink /\ b.raised) \/ (moveRan /\ m.raised)
           blink == IF blinkRan THEN YesNo(b.value) ELSE "absent"
           movement == IF moveRan /\ ~m.raised THEN YesNo(m.value) ELSE "absent"
       IN  /\ eye_history' = IF wantBlink THEN b.history ELSE eye_history
           /\ ears' = IF wantBlink /\ b.recorded
                      THEN Recorded(ears, b.history[Len(b.history)])
                      ELSE ears
           /\ head_pose_history' = IF moveRan THEN m.history ELSE head_pose_history
           /\ result' = [op |-> "check_liveness",
                         status |-> IF raised THEN "raised" ELSE "returned",
                         eyes |-> BothEyes(lm),
                         method |-> method,
                         value |-> ~raised /\ (blink = "yes" \/ movement = "yes"),
                         confidence |-> IF raised THEN 0
                                        ELSE Confidence(method, blink, movement),
                         blink |-> blink,
                         movement |-> movement,
                         dropped |-> IF moveRan /\ BothEyes(lm)
                                     THEN Dropped(head_pose_history)
                                     ELSE -1]
    /\ UNCHANGED blink_threshold
    /\ UNCHANGED <<serverVars, call, optimizerVars>>

\* ------------------------------------------------------------------------
\* Pure functions: one call at a time, its inputs and what it returned
\* ------------------------------------------------------------------------
Idle == [fn |-> "none"]

\* a caller takes the result of the last call
Return ==
    /\ call.fn # "none"
    /\ call' = Idle
    /\ UNCHANGED <<serverVars, livenessVars, optimizerVars>>

\* ------------------------------------------------------------------------
\* Quality validator. Scores and ratios are exact multiples of 1/One, so
\* 1.0 is One; pixel statistics (variance, brightness, deviation) and sizes
\* are integers.
\* ------------------------------------------------------------------------
One == 1260000 * 15

min_blur_variance == 100
min_face_size == 224
min_coverage == One \div 2
max_coverage == (One \div 10) * 8

Min(a, b) == IF a < b THEN a ELSE b

\* face_roi = frame[y:y+h, x:x+w] has no pixels
EmptyRoi(frame, bbox) ==
    frame.w = 0 \/ frame.h = 0 \/ bbox.w = 0 \/ bbox.h = 0

\* check_blur, from the Laplacian variance of the face crop
check_blur(empty, variance) ==
    IF empty
    THEN [is_acceptable |-> FALSE, score |-> 0]
    ELSE [is_acceptable |-> variance >= min_blur_variance,
          score |-> Min(variance * (One \div min_blur_variance), One)]

\* check_lighting, from the mean and standard deviation of the grey crop
check_lighting(empty, brightness, std_dev) ==
    IF empty
    THEN [is_acceptable |-> FALSE, score |-> 0]
    ELSE LET uniformity == One - Min(std_dev * (One \div 50), One)
         IN  [is_acceptable |-> /\ 50 <= brightness
                                /\ brightness <= 200
                                /\ uniformity > One \div 2,
              score |-> (brightness * (One \div 200)) \div 2
                          + uniformity \div 2]

\* check_coverage with the two ends of the range left out
check_coverage_exclusive(bbox, frame) ==
    LET face_area == bbox.w * bbox.h
        frame_area == frame.w * frame.h
        coverage == IF frame_area > 0
                    THEN face_area * (One \div frame_area) ELSE 0
    IN  [is_acceptable |-> min_coverage < coverage /\ coverage < max_coverage,
         coverage |-> coverage,
         score |-> One - Min((Abs(coverage - (One \div 100) * 65) \div 3) * 20,
                             One)]

\* check_coverage: face area over frame area against [0.5, 0.8], scored by
\* the distance from 0.65
check_coverage(bbox, frame) ==
    LET face_area == bbox.w * bbox.h
        frame_area == frame.w * frame.h
        coverage == IF frame_area > 0
                    THEN face_area * (One \div frame_area) ELSE 0
    IN  [is_acceptable |-> min_coverage <= coverage /\ coverage <= max_coverage,
         coverage |-> coverage,
         score |-> One - Min((Abs(coverage - (One \div 100) * 65) \div 3) * 20,
                             One)]

\* check_eye_visibility: whether the landmark list names each eye
check_eye_visibility(landmarks) ==
    [both_visible |-> landmarks.right_eye /\ landmarks.left_eye,
     score |-> IF landmarks.right_eye /\ landmarks.left_eye THEN One ELSE 0]

\* check_resolution
check_resolution(bbox) ==
    LET min_dimension == Min(bbox.w, bbox.h)
    IN  [meets_minimum |-> min_dimension >= min_face_size,
         score |-> Min(min_dimension * (One \div min_face_size), One)]

\* validate_frame with a lighting failure that also invalidates the frame
validate_frame_lighting_required(in) ==
    LET empty == EmptyRoi(in.frame, in.bbox)
        blur == check_blur(empty, in.variance)
        lighting == check_lighting(empty, in.brightness, in.std_dev)
        coverage == check_coverage(in.bbox, in.frame)
        eyes == check_eye_visibility(in.landmarks)
        resolution == check_resolution(in.bbox)
    IN  [is_valid |-> /\ blur.is_acceptable /\ lighting.is_acceptable
                      /\ coverage.is_acceptable /\ eyes.both_visible
                      /\ resolution.meets_minimum,
         warnings |-> IF lighting.is_acceptable THEN {}
                      ELSE {"Lighting may be suboptimal"},
         blur |-> blur, lighting |-> lighting, coverage |-> coverage,
         eyes |-> eyes, resolution |-> resolution,
         score |-> (blur.score + lighting.score + coverage.score
                      + eyes.score + resolution.score) \div 5]

\* validate_frame: is_valid starts true and is cleared by the blur,
\* coverage, eye and resolution checks in turn; lighting only warns
validate_frame(in) ==
    LET empty == EmptyRoi(in.frame, in.bbox)
        blur == check_blur(empty, in.variance)
        lighting == check_lighting(empty, in.brightness, in.std_dev)
        coverage == check_coverage(in.bbox, in.frame)
        eyes == check_eye_visibility(in.landmarks)
        resolution == check_resolution(in.bbox)
        v0 == TRUE
        v1 == IF ~blur.is_acceptable THEN FALSE ELSE v0
        v2 == IF ~coverage.is_acceptable THEN FALSE ELSE v1
        v3 == IF ~eyes.both_visible THEN FALSE ELSE v2
        v4 == IF ~resolution.meets_minimum THEN FALSE ELSE v3
    IN  [is_valid |-> v4,
         warnings |-> IF lighting.is_acceptable THEN {}
                      ELSE {"Lighting may be suboptimal"},
         blur |-> blur, lighting |-> lighting, coverage |-> coverage,
         eyes |-> eyes, resolution |-> resolution,
         score |-> (blur.score + lighting.score + coverage.score
                      + eyes.score + resolution.score) \div 5]

RECURSIVE GCD(_, _)
GCD(a, b) == IF b = 0 THEN a ELSE GCD(b, a % b)

\* num / den in units of 1/One, reduced first so that the division is exact
\* whenever the reduced denominator divides One
Ratio(num, den) ==
    LET g == GCD(num, den) IN (num \div g) * (One \div (den \div g))

\* _calculate_quality_score without the cap on the size score
_calculate_quality_score_uncapped(in) ==
    IF EmptyRoi(in.frame, in.bbox) THEN 0
    ELSE LET blur_score == Min(in.variance * (One \div 100), One)
             face_area == in.bbox.w * in.bbox.h
             frame_area == in.frame.w * in.frame.h
             size_score == Ratio(face_area, frame_area \div 10)
         IN  (blur_score \div 10) * 4 + (size_score \div 10) * 3
               + ((in.confidence * (One \div 100)) \div 10) * 3

\* _calculate_quality_score of ENROLL_CAPTURE (confidence in hundredths)
_calculate_quality_score(in) ==
    IF EmptyRoi(in.frame, in.bbox) THEN 0
    ELSE LET blur_score == Min(in.variance * (One \div 100), One)
             face_area == in.bbox.w * in.bbox.h
             frame_area == in.frame.w * in.frame.h
             size_score == Min(Ratio(face_area, frame_area \div 10), One)
         IN  (blur_score \div 10) * 4 + (size_score \div 10) * 3
               + ((in.confidence * (One \div 100)) \div 10) * 3

Frames == {[w |-> 300, h |-> 300], [w |-> 0, h |-> 0]}

Boxes == {[w |-> 0, h |-> 0], [w |-> 90, h |-> 100], [w |-> 100, h |-> 100],
          [w |-> 180, h |-> 250], [w |-> 200, h |-> 250],
          [w |-> 234, h |-> 250], [w |-> 250, h |-> 250],
          [w |-> 285, h |-> 300], [w |-> 300, h |-> 300]}

QualityInputs ==
    [variance : {0, 50, 100, 250},
     brightness : {49, 50, 200, 255},
     std_dev : {0, 24, 25, 60},
     frame : Frames,
     bbox : Boxes,
     landmarks : [right_eye : BOOLEAN, left_eye : BOOLEAN],
     confidence : {0, 50, 100}]

\* QualityValidator.validate_frame on one frame and face
ValidateFrame ==
    /\ call = Idle
    /\ \E in \in QualityInputs :
         call' = [fn |-> "validate_frame", in |-> in, out |-> validate_frame(in)]
    /\ UNCHANGED <<serverVars, livenessVars, optimizerVars>>

\* the frames and largest faces _calculate_quality_score is called on
EnrollFaces ==
    [frame : Frames, bbox : Boxes \cup {[w |-> 60, h |-> 75]}]
    \cup [frame : {[w |-> 640, h |-> 480]},
          bbox : {[w |-> 0, h |-> 0], [w |-> 64, h |-> 48],
                  [w |-> 300, h |-> 300]}]

EnrollInputs ==
    {[variance |-> v, frame |-> f.frame, bbox |-> f.bbox, confidence |-> c] :
        v \in {0, 50, 100, 150}, f \in EnrollFaces, c \in {0, 50, 95, 100}}

\* IpcServer._calculate_quality_score on one frame and face
CalculateQualityScore ==
    /\ call = Idle
    /\ \E in \in EnrollInputs :
         call' = [fn |-> "_calculate_quality_score", in |-> in,
                  out |-> _calculate_quality_score(in)]
    /\ UNCHANGED <<serverVars, livenessVars, optimizerVars>>

\* ------------------------------------------------------------------------
\* PerformanceOptimizer
\* ------------------------------------------------------------------------
FrameSkips == 0..3

\* PerformanceOptimizer.__init__ (frame_skip defaults to 1)
NewOptimizer ==
    /\ \E n \in FrameSkips : frame_skip' = n
    /\ frame_count' = 0
    /\ call' = Idle
    /\ UNCHANGED <<serverVars, livenessVars>>

\* PerformanceOptimizer.should_process_frame
ShouldProcessFrame ==
    /\ frame_count < MaxFrames
    /\ frame_count' = frame_count + 1
    /\ call' = [fn |-> "should_process_frame",
                out |-> frame_count' % (frame_skip + 1) = 0]
    /\ UNCHANGED <<serverVars, livenessVars, frame_skip>>

\* the numbers of landmarks an eye cluster is made of
ClusterSizes == 0..6

\* LivenessDetector.calculate_eye_aspect_ratio on one eye cluster
CalculateEyeAspectRatio ==
    /\ call = Idle
    /\ \E n \in ClusterSizes :
         call' = [fn |-> "calculate_eye_aspect_ratio", n |-> n,
                  out |-> calculate_eye_aspect_ratio(n)]
    /\ UNCHANGED <<serverVars, livenessVars, optimizerVars>>

\* detect_spoofing adding the confidences of the reasons up
detect_spoofing_summed(in) ==
    IF in.fault = "gray"
    THEN [is_spoof |-> FALSE, confidence |-> 0, reasons |-> <<>>]
    ELSE LET low_texture == in.texture_variance < 50
             r1 == IF low_texture
                   THEN [is_spoof |-> TRUE, confidence |-> 60,
                         reasons |-> <<"low_texture">>]
                   ELSE [is_spoof |-> FALSE, confidence |-> 0, reasons |-> <<>>]
         IN  IF in.fault = "hsv" \/ ~(in.saturation < 30) THEN r1
             ELSE [r1 EXCEPT !.confidence = r1.confidence + 40,
                             !.reasons = Append(r1.reasons, "low_saturation")]

\* detect_spoofing, from the Laplacian variance and the mean saturation of
\* the frame (confidence in hundredths); fault tells which cv2 conversion
\* raises, after which the result built so far is returned
detect_spoofing(in) ==
    IF in.fault = "gray"
    THEN [is_spoof |-> FALSE, confidence |-> 0, reasons |-> <<>>]
    ELSE LET low_texture == in.texture_variance < 50
             r1 == IF low_texture
                   THEN [is_spoof |-> TRUE, confidence |-> 60,
                         reasons |-> <<"low_texture">>]
                   ELSE [is_spoof |-> FALSE, confidence |-> 0, reasons |-> <<>>]
         IN  IF in.fault = "hsv" \/ ~(in.saturation < 30) THEN r1
             ELSE [r1 EXCEPT !.confidence = Max(r1.confidence, 40),
                             !.reasons = Append(r1.reasons, "low_saturation")]

SpoofInputs == [texture_variance : {0, 49, 50, 400},
                saturation : {0, 29, 30, 120},
                fault : {"none", "gray", "hsv"}]

\* detect_spoofing calling a frame a spoof for any reason it lists
DetectSpoofingOnAnyReason ==
    /\ call = Idle
    /\ \E in \in SpoofInputs :
         call' = [fn |-> "detect_spoofing", in |-> in,
                  out |-> [detect_spoofing(in) EXCEPT
                              !.is_spoof = detect_spoofing(in).reasons # <<>>]]
    /\ UNCHANGED <<serverVars, livenessVars, optimizerVars>>

\* LivenessDetector.detect_spoofing on one frame
DetectSpoofing ==
    /\ call = Idle
    /\ \E in \in SpoofInputs :
         call' = [fn |-> "detect_spoofing", in |-> in,
                  out |-> detect_spoofing(in)]
    /\ UNCHANGED <<serverVars, livenessVars, optimizerVars>>

MaxFaces == 3

Faces == {[none |-> FALSE, bbox |-> [w |-> 100, h |-> 200], confidence |-> 90,
           landmarks |-> "a"],
          [none |-> FALSE, bbox |-> [w |-> 200, h |-> 100], confidence |-> 80,
           landmarks |-> "b"],
          a_face,
          [none |-> FALSE, bbox |-> [w |-> 60, h |-> 75], confidence |-> 70,
           landmarks |-> "d"]}

FaceLists == UNION {[1..n -> Faces] : n \in 0..MaxFaces}

\* FaceDetector.get_largest_face on a list of detected faces
GetLargestFace ==
    /\ call = Idle
    /\ \E faces \in FaceLists :
         call' = [fn |-> "get_largest_face", faces |-> faces,
                  out |-> get_largest_face(faces)]
    /\ UNCHANGED <<serverVars, livenessVars, optimizerVars>>

\* _handle_enroll_capture from the list of faces the detector returned
EnrollCapture ==
    /\ call = Idle
    /\ \E faces \in FaceLists, col \in Collaborators :
         /\ col.detect = (IF faces = <<>> THEN "no_faces" ELSE "faces")
         /\ call' = [fn |-> "_handle_enroll_capture", faces |-> faces,
                     col |-> col, out |-> enroll_faces(faces, col)]
    /\ UNCHANGED <<serverVars, livenessVars, optimizerVars>>

Vectors == {<<1, 0>>, <<0, 1>>, <<3, 4>>, <<4, 3>>, <<-3, -4>>, <<0, 0>>,
            <<1, 0, 0>>}

Embeddings == {None} \cup {Vec(v) : v \in Vectors}

Thresholds == {-50, 0, 60, 96}

\* FaceRecognizer.compare on two embeddings
Compare ==
    /\ call = Idle
    /\ \E embedding1 \in Embeddings, embedding2 \in Embeddings,
          threshold \in Thresholds :
         call' = [fn |-> "compare", embedding1 |-> embedding1,
                  embedding2 |-> embedding2, threshold |-> threshold,
                  out |-> compare(embedding1, embedding2, threshold)]
    /\ UNCHANGED <<serverVars, livenessVars, optimizerVars>>

\* one JSON object read on a connection: _process_message on it with the
\* collaborators behaving as col, then json.dumps on the response. served
\* tells that the response was encoded and handed to the pipe and the
\* per-connection loop went on to its next read
HandleMessage ==
    /\ call = Idle
    /\ \E message \in Objects, col \in Collaborators :
         LET a == Answer(message, col)
         IN  call' = [fn |-> "_process_message", message |-> message,
                      col |-> col, out |-> _process_message(message, col),
                      served |-> a.fault = "none" /\ a.flush]
    /\ UNCHANGED <<serverVars, livenessVars, optimizerVars>>

NoError == [type |-> "none", winerror |-> 0]

PipeError(code) == [type |-> "pywintypes.error", winerror |-> code]

OtherException == [type |-> "Exception", winerror |-> 0]

\* a pipe instance of the name exists (the pipe is created with 1 as its
\* maximum number of instances)
InstanceOpen == \E t \in Threads : open[t]

Init ==
    /\ running = FALSE
    /\ server_thread = 0
    /\ pc = [t \in Threads |-> "none"]
    /\ open = [t \in Threads |-> FALSE]
    /\ err = [t \in Threads |-> NoError]
    /\ chan = "idle"
    /\ last = NoMessage
    /\ stop_pc = "idle"
    /\ join_target = 0
    /\ stopReturned = FALSE
    /\ afterStop = "none"
    /\ log = "none"
    /\ blink_threshold = 0
    /\ eye_history = <<>>
    /\ head_pose_history = <<>>
    /\ ears = <<>>
    /\ result = NoCall
    /\ call = Idle
    /\ frame_skip = 1
    /\ frame_count = 0

\* ------------------------------------------------------------------------
\* IpcServer.start and IpcServer.stop
\* ------------------------------------------------------------------------
\* start(), the new thread being one of T (the keep-alive loop that follows
\* in the caller changes nothing)
StartOn(T) ==
    /\ WINDOWS_AVAILABLE
    /\ \E t \in T :
         /\ pc[t] = "none"
         /\ \A u \in T : u < t => pc[u] # "none"
         /\ server_thread' = t
         /\ pc' = [pc EXCEPT ![t] = "loop"]
    /\ running' = TRUE
    /\ stopReturned' = FALSE
    /\ afterStop' = "none"
    /\ log' = "info"
    /\ UNCHANGED <<livenessVars, call, optimizerVars>>
    /\ UNCHANGED <<open, err, chan, last, stop_pc, join_target>>

Start == StartOn(Threads)

Stop ==
    /\ stop_pc = "idle"
    /\ running' = FALSE
    /\ IF server_thread # 0
       THEN /\ stop_pc' = "join"
            /\ join_target' = server_thread
            /\ log' = "none"
            /\ UNCHANGED stopReturned
       ELSE /\ stopReturned' = TRUE
            /\ log' = "info"
            /\ UNCHANGED <<stop_pc, join_target>>
    /\ UNCHANGED <<livenessVars, call, optimizerVars>>
    /\ UNCHANGED <<server_thread, pc, open, err, chan, last, afterStop>>

\* join(timeout=5) returns when the thread has finished, or after the
\* timeout when the thread sits in a blocking pipe call
StopReturn ==
    /\ stop_pc = "join"
    /\ pc[join_target] \in {"exited", "connect", "read"}
    /\ stop_pc' = "idle"
    /\ join_target' = 0
    /\ stopReturned' = ~running
    /\ log' = "info"
    /\ UNCHANGED <<livenessVars, call, optimizerVars>>
    /\ UNCHANGED <<running, server_thread, pc, open, err, chan, last,
                   afterStop>>

\* ------------------------------------------------------------------------
\* IpcServer._server_loop
\* ------------------------------------------------------------------------
\* while self.running: CreateNamedPipe(...)
LoopCheck(t) ==
    /\ pc[t] = "loop"
    /\ IF ~running
       THEN /\ pc' = [pc EXCEPT ![t] = "exited"]
            /\ log' = "none"
            /\ UNCHANGED <<open, err>>
       ELSE IF InstanceOpen
       THEN /\ pc' = [pc EXCEPT ![t] = "sl_error"]
            /\ err' = [err EXCEPT ![t] = PipeError(ERROR_PIPE_BUSY)]
            /\ log' = "none"
            /\ UNCHANGED open
       ELSE /\ pc' = [pc EXCEPT ![t] = "connect"]
            /\ open' = [open EXCEPT ![t] = TRUE]
            /\ log' = "info"
            /\ UNCHANGED err
    /\ UNCHANGED <<livenessVars, call, optimizerVars>>
    /\ UNCHANGED <<running, server_thread, chan, last, stop_pc,
                   join_target, stopReturned, afterStop>>

\* ConnectNamedPipe returns: a client is connected, _handle_client is entered
Connect(t) ==
    /\ pc[t] = "connect"
    /\ pc' = [pc EXCEPT ![t] = "serve"]
    /\ chan' = "fresh"
    /\ afterStop' = IF stopReturned THEN "accepted" ELSE afterStop
    /\ log' = "info"
    /\ UNCHANGED <<livenessVars, call, optimizerVars>>
    /\ UNCHANGED <<running, server_thread, open, err, last, stop_pc,
                   join_target, stopReturned>>

\* ConnectNamedPipe raises: the handle is not closed on this path
ConnectFails(t) ==
    /\ pc[t] = "connect"
    /\ \E code \in TransportErrors :
         err' = [err EXCEPT ![t] = PipeError(code)]
    /\ pc' = [pc EXCEPT ![t] = "sl_error"]
    /\ log' = "none"
    /\ UNCHANGED <<livenessVars, call, optimizerVars>>
    /\ UNCHANGED <<running, server_thread, open, chan, last, stop_pc,
                   join_target, stopReturned, afterStop>>

\* the two except clauses of _server_loop
SlError(t) ==
    /\ pc[t] = "sl_error"
    /\ IF err[t].type = "pywintypes.error" /\ err[t].winerror = ERROR_BROKEN_PIPE
       THEN pc' = [pc EXCEPT ![t] = "loop"] /\ log' = "debug"
       ELSE IF running
       THEN pc' = [pc EXCEPT ![t] = "sleep"] /\ log' = "error"
       ELSE pc' = [pc EXCEPT ![t] = "loop"] /\ log' = "none"
    /\ err' = [err EXCEPT ![t] = NoError]
    /\ UNCHANGED <<livenessVars, call, optimizerVars>>
    /\ UNCHANGED <<running, server_thread, open, chan, last, stop_pc,
                   join_target, stopReturned, afterStop>>

\* time.sleep(1) is over
Sleep(t) ==
    /\ pc[t] = "sleep"
    /\ pc' = [pc EXCEPT ![t] = "loop"]
    /\ log' = "none"
    /\ UNCHANGED <<livenessVars, call, optimizerVars>>
    /\ UNCHANGED <<running, server_thread, open, err, chan, last,
                   stop_pc, join_target, stopReturned, afterStop>>

\* ------------------------------------------------------------------------
\* IpcServer._handle_client
\* ------------------------------------------------------------------------
\* while self.running: ... finally: CloseHandle
ServeCheck(t) ==
    /\ pc[t] = "serve"
    /\ IF running
       THEN /\ pc' = [pc EXCEPT ![t] = "read"]
            /\ UNCHANGED <<open, chan>>
       ELSE /\ pc' = [pc EXCEPT ![t] = "loop"]
            /\ open' = [open EXCEPT ![t] = FALSE]
            /\ chan' = "idle"
    /\ log' = "none"
    /\ UNCHANGED <<livenessVars, call, optimizerVars>>
    /\ UNCHANGED <<running, server_thread, err, last, stop_pc,
                   join_target, stopReturned, afterStop>>

\* ReadFile raises (the peer closed the pipe, or another pipe error)
ReadFails(t) ==
    /\ pc[t] = "read"
    /\ \E code \in TransportErrors :
         err' = [err EXCEPT ![t] = PipeError(code)]
    /\ pc' = [pc EXCEPT ![t] = "hc_error"]
    /\ chan' = "broken"
    /\ last' = [NoMessage EXCEPT
                    !.msg = IF err'[t].winerror = ERROR_BROKEN_PIPE
                            THEN "disconnect" ELSE "read_error",
                    !.closed = TRUE]
    /\ log' = "none"
    /\ UNCHANGED <<livenessVars, call, optimizerVars>>
    /\ UNCHANGED <<running, server_thread, open, stop_pc,
                   join_target, stopReturned, afterStop>>

\* ReadFile returns a result other than 0: break, then the finally clause
ReadBreak(t) ==
    /\ pc[t] = "read"
    /\ pc' = [pc EXCEPT ![t] = "loop"]
    /\ open' = [open EXCEPT ![t] = FALSE]
    /\ chan' = "idle"
    /\ last' = [NoMessage EXCEPT !.msg = "read_break", !.closed = TRUE]
    /\ log' = "none"
    /\ UNCHANGED <<livenessVars, call, optimizerVars>>
    /\ UNCHANGED <<running, server_thread, err, stop_pc,
                   join_target, stopReturned, afterStop>>

\* ReadFile returns an empty message: continue
ReadEmpty(t) ==
    /\ pc[t] = "read"
    /\ pc' = [pc EXCEPT ![t] = "serve"]
    /\ last' = [NoMessage EXCEPT !.msg = "empty", !.before = chan]
    /\ chan' = "pending"
    /\ afterStop' = IF stopReturned THEN "served" ELSE afterStop
    /\ log' = "none"
    /\ UNCHANGED <<livenessVars, call, optimizerVars>>
    /\ UNCHANGED <<running, server_thread, open, err, stop_pc,
                   join_target, stopReturned>>

\* ReadFile returns a message; decoding, dispatching or encoding it raises
\* something that is not a JSONDecodeError nor a pipe error: the finally
\* clause closes the handle and the exception reaches _server_loop
ServeRaises(t) ==
    /\ pc[t] = "read"
    /\ \E a \in Answers :
         /\ a.fault = "exception"
         /\ last' = [msg |-> a.msg, dispatch |-> a.dispatch, sent |-> "nothing",
                     closed |-> TRUE, before |-> chan]
    /\ pc' = [pc EXCEPT ![t] = "sl_error"]
    /\ err' = [err EXCEPT ![t] = OtherException]
    /\ open' = [open EXCEPT ![t] = FALSE]
    /\ chan' = "idle"
    /\ afterStop' = IF stopReturned THEN "served" ELSE afterStop
    /\ log' = "none"
    /\ UNCHANGED <<livenessVars, call, optimizerVars>>
    /\ UNCHANGED <<running, server_thread, stop_pc, join_target,
                   stopReturned>>

\* ReadFile returns a message and a response is written: after
\* _process_message the response is written and flushed, after a
\* JSONDecodeError the failure response is written
ServeAnswers(t) ==
    /\ pc[t] = "read"
    /\ \E a \in Answers :
         /\ a.fault = "none"
         /\ last' = [msg |-> a.msg, dispatch |-> a.dispatch,
                     sent |-> IF a.flush THEN "flushed" ELSE "written",
                     closed |-> FALSE, before |-> chan]
         /\ chan' = IF a.flush THEN "flushed" ELSE "written"
         /\ log' = a.logs
    /\ pc' = [pc EXCEPT ![t] = "serve"]
    /\ afterStop' = IF stopReturned THEN "served" ELSE afterStop
    /\ UNCHANGED <<livenessVars, call, optimizerVars>>
    /\ UNCHANGED <<running, server_thread, open, err, stop_pc,
                   join_target, stopReturned>>

\* ReadFile returns a message and WriteFile or FlushFileBuffers raises
WriteFails(t) ==
    /\ pc[t] = "read"
    /\ \E a \in Answers :
         /\ a.fault = "none"
         /\ last' = [msg |-> a.msg, dispatch |-> a.dispatch, sent |-> "failed",
                     closed |-> TRUE, before |-> chan]
         /\ log' = a.logs
    /\ \E code \in TransportErrors :
         err' = [err EXCEPT ![t] = PipeError(code)]
    /\ pc' = [pc EXCEPT ![t] = "hc_error"]
    /\ chan' = "broken"
    /\ afterStop' = IF stopReturned THEN "served" ELSE afterStop
    /\ UNCHANGED <<livenessVars, call, optimizerVars>>
    /\ UNCHANGED <<running, server_thread, open, stop_pc,
                   join_target, stopReturned>>

\* _handle_client without its finally clause
HcErrorKeepsHandle(t) ==
    /\ pc[t] = "hc_error"
    /\ log' = IF err[t].winerror # ERROR_BROKEN_PIPE THEN "error" ELSE "none"
    /\ pc' = [pc EXCEPT ![t] = "loop"]
    /\ err' = [err EXCEPT ![t] = NoError]
    /\ chan' = "idle"
    /\ UNCHANGED <<livenessVars, call, optimizerVars>>
    /\ UNCHANGED <<running, server_thread, open, last, stop_pc,
                   join_target, stopReturned, afterStop>>

\* except pywintypes.error, then the finally clause
HcError(t) ==
    /\ pc[t] = "hc_error"
    /\ log' = IF err[t].winerror # ERROR_BROKEN_PIPE THEN "error" ELSE "none"
    /\ pc' = [pc EXCEPT ![t] = "loop"]
    /\ open' = [open EXCEPT ![t] = FALSE]
    /\ err' = [err EXCEPT ![t] = NoError]
    /\ chan' = "idle"
    /\ UNCHANGED <<livenessVars, call, optimizerVars>>
    /\ UNCHANGED <<running, server_thread, last, stop_pc,
                   join_target, stopReturned, afterStop>>

\* ------------------------------------------------------------------------
\* Specifications
\* ------------------------------------------------------------------------
ThreadStep(t) ==
    \/ LoopCheck(t)
    \/ Connect(t)
    \/ ConnectFails(t)
    \/ SlError(t)
    \/ Sleep(t)
    \/ ServeCheck(t)
    \/ ReadFails(t)
    \/ ReadBreak(t)
    \/ ReadEmpty(t)
    \/ ServeRaises(t)
    \/ ServeAnswers(t)
    \/ WriteFails(t)
    \/ HcError(t)

Next ==
    \/ Start
    \/ Stop
    \/ StopReturn
    \/ \E t \in Threads : ThreadStep(t)

Spec == Init /\ [][Next]_vars

LivenessNext ==
    \/ NewDetector
    \/ DetectBlink
    \/ DetectHeadMovement
    \/ \E method \in Methods, lm \in Landmarks : CheckLiveness(method, lm)

LivenessSpec == Init /\ [][LivenessNext]_vars

\* the pure functions of the service, called one at a time
FunctionNext ==
    \/ ValidateFrame
    \/ CalculateQualityScore
    \/ CalculateEyeAspectRatio
    \/ DetectSpoofing
    \/ GetLargestFace
    \/ EnrollCapture
    \/ Compare
    \/ HandleMessage
    \/ Return

FunctionSpec == Init /\ [][FunctionNext]_vars

\* a PerformanceOptimizer and the calls made on it
OptimizerNext ==
    \/ NewOptimizer
    \/ ShouldProcessFrame

OptimizerSpec == Init /\ [][OptimizerNext]_vars

\* the steps a serving thread takes without waiting for the client
Internal(t) ==
    \/ LoopCheck(t)
    \/ SlError(t)
    \/ Sleep(t)
    \/ ServeCheck(t)
    \/ HcError(t)

\* a serving thread that can take a step of its own eventually takes it
LiveSpec == Spec /\ \A t \in Threads : WF_vars(Internal(t))

\* ------------------------------------------------------------------------
\* Properties of the session server
\* ------------------------------------------------------------------------
Malformed == {"bad_utf8", "bad_json", "non_object"}

\* C1: a message that cannot be decoded as a command object is answered
\* with one decode-error failure response on the same connection, and the
\* connection stays open for the next message (a failing write aside)
MalformedIsAnswered ==
    (last.msg \in Malformed /\ last.sent # "failed") =>
        /\ last.sent = "written"
        /\ last.dispatch = "none"
        /\ ~last.closed

\* C2: every dispatch of a decoded message ends in a success or a failure
\* response; the dispatcher raises nothing
DispatchAlwaysResponds ==
    last.msg = "object" => last.dispatch \in {"success", "failure"}

\* C3: every message is read on a fresh connection or after the response
\* to the message before it was written and flushed, and a message that
\* leaves the connection open has its response written and flushed
StrictlySequential ==
    /\ last.before \in {"none", "fresh", "flushed"}
    /\ (last.msg \notin {"none", "disconnect", "read_error", "read_break"}
            /\ ~last.closed) => last.sent = "flushed"

Disconnected(t) ==
    /\ pc[t] = "hc_error"
    /\ err[t] = PipeError(ERROR_BROKEN_PIPE)

\* C4: a disconnect of the served client ends the per-connection loop
\* with the handle closed, no error logged and no exception passed to the
\* accept loop, and while the server runs a pipe instance is created again
\* and a thread waits for the next client
DisconnectRecovers ==
    /\ [][\A t \in Threads :
            (Disconnected(t) /\ pc'[t] # pc[t]) =>
                (pc'[t] = "loop" /\ ~open'[t] /\ log' # "error")]_vars
    /\ ((\E t \in Threads : Disconnected(t))
            ~> (~running \/ \E t \in Threads : pc[t] = "connect"))

\* a client is being served on a connection accepted after a disconnect
ServedAfterDisconnect ==
    /\ last.msg = "disconnect"
    /\ chan = "fresh"
    /\ \E t \in Threads : pc[t] = "read"

Serving == {t \in Threads : pc[t] \notin {"none", "exited"}}

\* C5: whatever start() and stop() calls were made, at most one serving
\* thread runs the accept loop
AtMostOneServingThread == Cardinality(Serving) <= 1

\* C6: once stop() has returned (and start() was not called again) no
\* serving thread accepts a connection or takes a message from the pipe
StopQuiesces == stopReturned => afterStop = "none"

\* ------------------------------------------------------------------------
\* The service process: one start() as in main.py, and a liveness detector
\* fed the frames of a face that keeps still
\* ------------------------------------------------------------------------
StillFace == [right |-> 1, left |-> 1, dx |-> 100, dy |-> 0]

StartOnce == StartOn({1})

SessionNext ==
    \/ StartOnce
    \/ Stop
    \/ StopReturn
    \/ ThreadStep(1)
    \/ NewDetector
    \/ CheckLiveness("both", StillFace)

SessionSpec == Init /\ [][SessionNext]_vars

\* C7: when the server accepts a connection both liveness histories are
\* empty
NewConnectionStartsEmpty ==
    [][(\E t \in Threads : pc[t] = "connect" /\ pc'[t] = "serve") =>
            (eye_history' = <<>> /\ head_pose_history' = <<>>)]_vars

\* ------------------------------------------------------------------------
\* Properties of the liveness engine
\* ------------------------------------------------------------------------
\* C8: with both eyes present every detect_head_movement call returns, and
\* has_movement is false with fewer than 3 entries in the history and
\* otherwise tells whether the latest angle is more than 5 degrees from
\* the oldest retained one
HeadMovementDecides ==
    (result.op = "detect_head_movement" /\ result.eyes) =>
        /\ result.status = "returned"
        /\ Len(head_pose_history) < 3 => ~result.value
        /\ Len(head_pose_history) >= 3 =>
              (result.value <=>
                  Abs(head_pose_history[Len(head_pose_history)]
                        - head_pose_history[1]) > MOVEMENT_THRESHOLD)

\* one append to a history: the entries kept stay in arrival order, and a
\* full history gives up exactly its oldest entry
Slides(before, after) ==
    \/ after = before
    \/ after = <<>>
    \/ /\ Len(before) < history_size
       /\ Len(after) = Len(before) + 1
       /\ \A i \in 1..Len(before) : after[i] = before[i]
    \/ /\ Len(before) = history_size
       /\ Len(after) = history_size
       /\ \A i \in 1..(history_size - 1) : after[i] = before[i + 1]

\* C11: the eye and head-pose histories never hold more than history_size
\* entries, every append keeps arrival order and evicts exactly the oldest
\* entry of a full history, and once the window has wrapped movement is
\* decided against the oldest retained angle
HistoriesAreSlidingWindows ==
    /\ [](Len(eye_history) <= history_size
            /\ Len(head_pose_history) <= history_size)
    /\ [][/\ Slides(eye_history, eye_history')
          /\ Slides(head_pose_history, head_pose_history')]_vars
    /\ []((result.op = "detect_head_movement" /\ result.dropped # -1) =>
            (result.value <=>
                Abs(head_pose_history[Len(head_pose_history)]
                      - head_pose_history[1]) > MOVEMENT_THRESHOLD))

\* a detect_head_movement call on a full history that evicted an angle close
\* to the latest one and reports movement against the oldest retained angle
MovementAfterWrap ==
    /\ result.op = "detect_head_movement"
    /\ result.status = "returned"
    /\ result.dropped # -1
    /\ Len(head_pose_history) = history_size
    /\ Len(eye_history) = history_size
    /\ Abs(head_pose_history[Len(head_pose_history)] - result.dropped)
          <= MOVEMENT_THRESHOLD
    /\ result.value

\* C9: a detect_blink call that records a sample returns true exactly when
\* that sample is below the threshold and the sample recorded before it
\* was at or above the threshold
BlinkIsFallingEdge ==
    (result.op = "detect_blink" /\ result.status = "returned" /\ result.eyes) =>
        (result.value <=>
            /\ Len(ears) = 2
            /\ ears[2] < blink_threshold
            /\ ears[1] >= blink_threshold)

\* a second sample of a sequence that stays below the threshold was recorded
BlinkOnLowSequence ==
    /\ result.op = "detect_blink"
    /\ result.status = "returned"
    /\ result.eyes
    /\ Len(ears) = 2
    /\ ears[1] < blink_threshold
    /\ ears[2] < blink_threshold
    /\ ~result.value

\* C10: in a check_liveness result is_live tells whether a requested
\* sub-signal fired, and the confidence is 0.95 when both fired under
\* method both, else 0.8 when blink fired, else 0.7 when movement fired,
\* else 0.0
LivenessVerdict ==
    (result.op = "check_liveness" /\ result.status = "returned"
        /\ result.method \in {"blink", "movement", "both"}) =>
        LET b == result.method \in {"blink", "both"} /\ result.blink = "yes"
            m == /\ result.method \in {"movement", "both"}
                 /\ HasMovement(head_pose_history)
                 /\ result.eyes
        IN  /\ result.value <=> (b \/ m)
            /\ result.confidence =
                  IF result.method = "both" /\ b /\ m THEN 95
                  ELSE IF b THEN 80
                  ELSE IF m THEN 70
                  ELSE 0

\* check_liveness returned with head movement as the only signal
MovementOnlyVerdict ==
    /\ result.op = "check_liveness"
    /\ result.status = "returned"
    /\ result.method = "both"
    /\ result.blink = "no"
    /\ result.movement = "yes"
    /\ result.confidence = 70

\* ------------------------------------------------------------------------
\* Properties of the quality validator
\* ------------------------------------------------------------------------
\* C12: the is_valid verdict of validate_frame is exactly the conjunction
\* of blur acceptable, coverage acceptable, both eyes visible and resolution
\* meets minimum; a lighting failure changes nothing but the warning list
ValidIsConjunctionOfFour ==
    call.fn = "validate_frame" =>
        /\ call.out.is_valid <=>
              /\ call.out.blur.is_acceptable
              /\ call.out.coverage.is_acceptable
              /\ call.out.eyes.both_visible
              /\ call.out.resolution.meets_minimum
        /\ ("Lighting may be suboptimal" \in call.out.warnings) <=>
              ~call.out.lighting.is_acceptable

\* a frame that fails the lighting check only, and is valid with a warning
ValidDespiteLighting ==
    /\ call.fn = "validate_frame"
    /\ ~call.out.lighting.is_acceptable
    /\ call.out.is_valid
    /\ call.out.warnings = {"Lighting may be suboptimal"}

\* C13: every score the service produces lies in [0, 1]: the five
\* sub-check scores and the overall score of validate_frame, and the
\* quality_score of ENROLL_CAPTURE
ScoresInUnitRange ==
    /\ call.fn = "validate_frame" =>
          \A score \in {call.out.blur.score, call.out.lighting.score,
                         call.out.coverage.score, call.out.eyes.score,
                         call.out.resolution.score, call.out.score} :
              0 <= score /\ score <= One
    /\ call.fn = "_calculate_quality_score" =>
          (0 <= call.out /\ call.out <= One)

\* ------------------------------------------------------------------------
\* Properties of the comparator and the command dispatcher
\* ------------------------------------------------------------------------
\* the command is a string that upper-cases to one of the four commands
KnownCommand(command) ==
    /\ IsString(command)
    /\ Upper(command) \in {"DETECT", "EXTRACT_EMBEDDING", "COMPARE",
                           "ENROLL_CAPTURE"}

Handled == call.fn = "_process_message"

\* C14: whenever compare computes a cosine similarity, is_match is true
\* exactly when the similarity is strictly above the threshold; COMPARE
\* uses 0.6 when no threshold is supplied, and the threshold in its result
\* is the one the match was decided against
MatchIsStrictlyAboveThreshold ==
    /\ (call.fn = "compare" /\ call.out.numpy /\ ~call.out.nan) =>
          (call.out.is_match <=> call.out.similarity > call.threshold)
    /\ (Handled /\ call.out.data.present /\ ~call.out.data.nan) =>
          /\ call.message.parameters.threshold = "absent" =>
                call.out.data.threshold = DEFAULT_THRESHOLD
          /\ call.message.parameters.threshold = "number" =>
                call.out.data.threshold # DEFAULT_THRESHOLD
          /\ call.out.data.match <=>
                call.out.data.similarity > call.out.data.threshold

\* a COMPARE without a threshold whose similarity is exactly 0.6: no match,
\* and 0.6 in the result
EqualToDefaultIsNoMatch ==
    /\ Handled
    /\ call.message.parameters.threshold = "absent"
    /\ call.out.data.present
    /\ call.out.data.threshold = DEFAULT_THRESHOLD
    /\ call.out.data.similarity = DEFAULT_THRESHOLD
    /\ ~call.out.data.match

\* C15: compare returns exactly (false, 0.0) when an embedding is None,
\* when an embedding has zero norm and when the lengths differ
DegenerateIsNoMatch ==
    (/\ call.fn = "compare"
     /\ \/ call.embedding1.none
        \/ call.embedding2.none
        \/ Dot(call.embedding1.v, call.embedding1.v) = 0
        \/ Dot(call.embedding2.v, call.embedding2.v) = 0
        \/ Len(call.embedding1.v) # Len(call.embedding2.v)) =>
        /\ ~call.out.is_match
        /\ call.out.similarity = 0
        /\ ~call.out.nan

\* C16: no face found, a COMPARE without an embedding and a COMPARE with an
\* embedding of another length are each answered with a failure response
\* that carries a specific reason
DomainFaultsAreFailures ==
    (/\ Handled
     /\ KnownCommand(call.message.command)
     /\ call.message.frame_data = "image"
     /\ call.message.parameters.kind # "non_map"
     /\ LET command == Upper(call.message.command)
            parameters == call.message.parameters
        IN  \/ /\ command = "ENROLL_CAPTURE"
               /\ \/ call.col.detect = "no_faces"
                  \/ call.col.detect = "faces" /\ call.col.embed = "none"
            \/ /\ command = "EXTRACT_EMBEDDING"
               /\ parameters.bbox \in {"absent", "box"}
               /\ call.col.embed = "none"
            \/ /\ command = "COMPARE"
               /\ \/ parameters.embedding = "absent"
                  \/ parameters.embedding # "absent" /\ call.col.embed = "none"
                  \/ /\ parameters.embedding = "other_length"
                     /\ parameters.threshold # "bad"
                     /\ call.col.embed = "embedding") =>
        /\ ~call.out.raised
        /\ ~call.out.success
        /\ call.out.error \notin {"", "exception"}

\* C17: a COMPARE whose frame decodes, in which an embedding is found and
\* which comes with a comparison embedding is answered with one success
\* response carrying the comparison, and the connection goes on
CompareIsAnswered ==
    (/\ Handled
     /\ IsString(call.message.command)
     /\ Upper(call.message.command) = "COMPARE"
     /\ call.message.frame_data = "image"
     /\ call.col.embed = "embedding"
     /\ call.message.parameters.kind = "map"
     /\ call.message.parameters.embedding \in {"same_length", "other_length"}
     /\ call.message.parameters.threshold # "bad") =>
        /\ ~call.out.raised
        /\ call.out.success
        /\ call.out.data.present
        /\ call.served

\* C18: a request whose command is none of the four is answered with a
\* failure response that names the command as it was sent, and the
\* connection goes on
UnknownCommandIsNamedAsSent ==
    (Handled /\ ~KnownCommand(call.message.command)) =>
        /\ ~call.out.raised
        /\ ~call.out.success
        /\ call.out.error = "Unknown command"
        /\ call.out.names = IF call.message.command = "absent" THEN ""
                            ELSE call.message.command
        /\ call.served

\* C19: each of the four commands answers absent, empty or undecodable
\* frame_data with the failure "Invalid frame data" without calling the
\* detector or the recognizer, and the connection goes on
InvalidFrameIsRefused ==
    (/\ Handled
     /\ KnownCommand(call.message.command)
     /\ call.message.frame_data \in {"absent", "empty", "undecodable"}) =>
        /\ ~call.out.raised
        /\ ~call.out.success
        /\ call.out.error = "Invalid frame data"
        /\ call.out.calls = {}
        /\ call.served

\* an ENROLL_CAPTURE with undecodable frame data, refused before a detector
\* that would have raised is called
UndecodableFrameRefused ==
    /\ Handled
    /\ call.message.command = "ENROLL_CAPTURE"
    /\ call.message.frame_data = "undecodable"
    /\ call.col.detect = "raises"
    /\ call.out.error = "Invalid frame data"
    /\ call.out.calls = {}
    /\ call.served

\* the handler called a collaborator that raises on this request
CollaboratorRaised ==
    \/ "detector" \in call.out.calls /\ call.col.detect = "raises"
    \/ "recognizer" \in call.out.calls /\ call.col.embed = "raises"

\* C20: when the detector or the recognizer raises while one of the four
\* commands is handled, the dispatcher returns a failure response with a
\* reason, nothing is raised into the per-connection loop and the
\* connection goes on
CollaboratorFaultIsContained ==
    (/\ Handled
     /\ KnownCommand(call.message.command)
     /\ CollaboratorRaised) =>
        /\ ~call.out.raised
        /\ ~call.out.success
        /\ call.out.error # ""
        /\ call.served

\* a DETECT whose detector raises, answered with the exception's text
DetectorFaultAnswered ==
    /\ Handled
    /\ call.message.command = "DETECT"
    /\ call.col.detect = "raises"
    /\ "detector" \in call.out.calls
    /\ ~call.out.success
    /\ call.out.error = "exception"
    /\ call.served

\* ------------------------------------------------------------------------
\* Properties of the accept loop
\* ------------------------------------------------------------------------
\* C21: a thread that handles a pipe error other than a disconnect while
\* the server is running, whether it was raised by CreateNamedPipe or
\* ConnectNamedPipe or while the client was served, goes to the backoff
\* sleep and not straight back to the accept loop
BackoffAfterTransportError ==
    [][\A t \in Threads :
          (/\ pc[t] \in {"sl_error", "hc_error"}
           /\ err[t].type = "pywintypes.error"
           /\ err[t].winerror # ERROR_BROKEN_PIPE
           /\ running
           /\ pc'[t] # pc[t]) => pc'[t] = "sleep"]_vars

\* C22: a COMPARE whose frame decodes and yields no embedding fails with
\* the no-face reason, after the recognizer has run, whether or not the
\* embedding parameter is present
CompareLooksForFaceFirst ==
    (/\ Handled
     /\ IsString(call.message.command)
     /\ Upper(call.message.command) = "COMPARE"
     /\ call.message.frame_data = "image"
     /\ call.message.parameters.kind # "non_map"
     /\ call.col.embed = "none") =>
        /\ ~call.out.success
        /\ call.out.error = "No face detected in frame"
        /\ "recognizer" \in call.out.calls

\* ------------------------------------------------------------------------
\* Properties of ENROLL_CAPTURE
\* ------------------------------------------------------------------------
\* C23: for a face whose crop is not empty the quality score is
\* 0.4 x min(variance / 100, 1) + 0.3 x min(face_area / (frame_area x 0.1), 1)
\* + 0.3 x confidence; a 300 x 300 face in a 640 x 480 frame with
\* confidence 0.95 and variance 150 scores 0.985
QualityScoreIsWeightedBlend ==
    (call.fn = "_calculate_quality_score"
        /\ ~EmptyRoi(call.in.frame, call.in.bbox)) =>
        LET face_area == call.in.bbox.w * call.in.bbox.h
            frame_area == call.in.frame.w * call.in.frame.h
            blur == IF call.in.variance >= 100 THEN One
                    ELSE (One \div 100) * call.in.variance
            size == IF face_area * 10 >= frame_area THEN One
                    ELSE Ratio(face_area * 10, frame_area)
            confidence == (One \div 100) * call.in.confidence
        IN  /\ call.out * 10 = 4 * blur + 3 * size + 3 * confidence
            /\ (/\ call.in.frame = [w |-> 640, h |-> 480]
                /\ call.in.bbox = [w |-> 300, h |-> 300]
                /\ call.in.confidence = 95
                /\ call.in.variance = 150) =>
                  call.out = (One \div 1000) * 985

\* the worked example: 0.985
QualityScoreExample ==
    /\ call.fn = "_calculate_quality_score"
    /\ call.in.frame = [w |-> 640, h |-> 480]
    /\ call.in.bbox = [w |-> 300, h |-> 300]
    /\ call.in.confidence = 95
    /\ call.in.variance = 150
    /\ call.out = (One \div 1000) * 985

\* the i-th face is the first of the faces of maximal bbox area
FirstLargest(faces, i) ==
    /\ \A j \in 1..Len(faces) : Area(faces[j]) <= Area(faces[i])
    /\ \A j \in 1..(i - 1) : Area(faces[j]) < Area(faces[i])

\* C24: get_largest_face returns none for an empty list and otherwise the
\* first of the faces of maximal bbox area, and a successful
\* ENROLL_CAPTURE crops the embedding from that face and returns its bbox,
\* confidence and landmarks
LargestFaceIsFirstMaximal ==
    /\ call.fn = "get_largest_face" =>
          IF call.faces = <<>> THEN call.out.none
          ELSE \E i \in 1..Len(call.faces) :
                  FirstLargest(call.faces, i) /\ call.out = call.faces[i]
    /\ (call.fn = "_handle_enroll_capture" /\ call.out.success) =>
          \E i \in 1..Len(call.faces) :
              /\ FirstLargest(call.faces, i)
              /\ call.out.capture.present
              /\ call.out.capture.crop = call.faces[i].bbox
              /\ call.out.capture.bbox = call.faces[i].bbox
              /\ call.out.capture.confidence = call.faces[i].confidence
              /\ call.out.capture.landmarks = call.faces[i].landmarks

\* an ENROLL_CAPTURE on a small face followed by two different faces of the
\* same, largest area: the first of the two is captured
TieGoesToFirst ==
    /\ call.fn = "_handle_enroll_capture"
    /\ Len(call.faces) = 3
    /\ Area(call.faces[1]) < Area(call.faces[2])
    /\ Area(call.faces[2]) = Area(call.faces[3])
    /\ call.faces[2] # call.faces[3]
    /\ call.out.success
    /\ call.out.capture.landmarks = call.faces[2].landmarks
    /\ call.out.capture.bbox = call.faces[2].bbox

\* ------------------------------------------------------------------------
\* More properties of the quality validator
\* ------------------------------------------------------------------------
\* C25: the coverage face_area / frame_area is acceptable exactly when it
\* lies in [0.5, 0.8] and scores 1 - min(|coverage - 0.65| / 0.15, 1); a
\* face covering exactly 65% scores 1.0, faces covering 10% and 95% are
\* both unacceptable
CoverageCheck ==
    (call.fn = "validate_frame" /\ call.in.frame.w * call.in.frame.h > 0) =>
        LET face_area == call.in.bbox.w * call.in.bbox.h
            frame_area == call.in.frame.w * call.in.frame.h
            coverage == Ratio(face_area, frame_area)
            check == call.out.coverage
        IN  /\ check.coverage = coverage
            /\ check.is_acceptable <=>
                  (2 * face_area >= frame_area /\ 10 * face_area <= 8 * frame_area)
            /\ check.score =
                  One - Min((Abs(coverage - (One \div 100) * 65) * 20) \div 3, One)
            /\ 100 * face_area = 65 * frame_area => check.score = One
            /\ 100 * face_area = 10 * frame_area => ~check.is_acceptable
            /\ 100 * face_area = 95 * frame_area => ~check.is_acceptable

\* a face covering exactly 65% of the frame: acceptable, with score 1.0
IdealCoverage ==
    /\ call.fn = "validate_frame"
    /\ call.in.frame.w * call.in.frame.h > 0
    /\ 100 * call.in.bbox.w * call.in.bbox.h
          = 65 * call.in.frame.w * call.in.frame.h
    /\ call.out.coverage.is_acceptable
    /\ call.out.coverage.score = One

\* ------------------------------------------------------------------------
\* More properties of the liveness engine
\* ------------------------------------------------------------------------
\* C26: calculate_eye_aspect_ratio returns a number for every eye cluster
\* and never faults (1.0 for a cluster too small to measure)
EarNeverFaults ==
    call.fn = "calculate_eye_aspect_ratio" =>
        /\ ~call.out.raised
        /\ call.n < 4 => call.out.ear = OPEN_EAR

\* the elements of a sequence
Range(s) == {s[i] : i \in 1..Len(s)}

\* C27: the confidence of detect_spoofing is the largest of the confidences
\* of the reasons it lists and never their sum: 0.0 without a reason, 0.6
\* for low_texture (variance below 50), 0.4 for low_saturation (mean
\* saturation below 30) alone and 0.6 for both, with both listed
SpoofConfidenceIsMaximum ==
    call.fn = "detect_spoofing" =>
        /\ call.in.fault = "none" =>
              /\ "low_texture" \in Range(call.out.reasons)
                    <=> call.in.texture_variance < 50
              /\ "low_saturation" \in Range(call.out.reasons)
                    <=> call.in.saturation < 30
        /\ Len(call.out.reasons) = Cardinality(Range(call.out.reasons))
        /\ call.out.confidence =
              (CASE Range(call.out.reasons) = {} -> 0
                 [] Range(call.out.reasons) = {"low_texture"} -> 60
                 [] Range(call.out.reasons) = {"low_saturation"} -> 40
                 [] Range(call.out.reasons) = {"low_texture", "low_saturation"}
                      -> 60)

\* a flat, colourless frame: both reasons, confidence 0.6
BothReasonsTriggered ==
    /\ call.fn = "detect_spoofing"
    /\ call.in.texture_variance < 50
    /\ call.in.saturation < 30
    /\ call.out.reasons = <<"low_texture", "low_saturation">>
    /\ call.out.confidence = 60

\* C31: in every detect_spoofing result is_spoof is true exactly when
\* low_texture is among the reasons; a frame that triggers low_saturation
\* alone comes back with a non-empty reasons list and confidence 0.4 but
\* is_spoof false
SpoofOnlyOnLowTexture ==
    call.fn = "detect_spoofing" =>
        /\ call.out.is_spoof <=> "low_texture" \in Range(call.out.reasons)
        /\ (call.in.fault = "none" /\ call.in.saturation < 30
               /\ ~(call.in.texture_variance < 50))
              => /\ call.out.reasons = <<"low_saturation">>
                 /\ call.out.confidence = 40
                 /\ ~call.out.is_spoof

\* a textured but colourless frame: low_saturation alone, not a spoof
OnlyLowSaturation ==
    /\ call.fn = "detect_spoofing"
    /\ call.in.fault = "none"
    /\ call.in.texture_variance = 400
    /\ call.in.saturation = 29
    /\ call.out.reasons = <<"low_saturation">>
    /\ call.out.confidence = 40
    /\ ~call.out.is_spoof

\* ------------------------------------------------------------------------
\* Properties of the performance optimizer
\* ------------------------------------------------------------------------
\* C28: with frame_skip = 1 every call of should_process_frame returns true
NoFrameIsSkipped ==
    (call.fn = "should_process_frame" /\ frame_skip = 1) => call.out

\* ------------------------------------------------------------------------
\* Properties of the pipe handles
\* ------------------------------------------------------------------------
\* C29: every handle the accept loop created is closed when the loop comes
\* back to create the next one, whichever path the iteration took
HandleClosedBeforeNextCreate ==
    \A t \in Threads : pc[t] = "loop" => ~open[t]

\* ------------------------------------------------------------------------
\* Frame effects of the liveness calls
\* ------------------------------------------------------------------------
\* after is before with one more sample appended (the oldest given up when
\* the history was full)
Appended(before, after) ==
    /\ after # <<>>
    /\ after = Push(before, after[Len(after)])

\* C30: a liveness call changes only the history it is about: detect_blink
\* and detect_head_movement change neither history when an eye is missing;
\* check_liveness leaves the head-pose history alone under method blink and
\* the EAR history alone under method movement, appends to both histories
\* under method both (on a frame that has both eyes), and under any other
\* method changes nothing and answers is_live false with confidence 0.0
LivenessFrameEffects ==
    [][LET op == result'.op
           method == result'.method
       IN  /\ (op \in {"detect_blink", "detect_head_movement"} /\ ~result'.eyes)
                => UNCHANGED <<eye_history, head_pose_history>>
           /\ (op = "check_liveness" /\ method = "blink")
                => UNCHANGED head_pose_history
           /\ (op = "check_liveness" /\ method = "movement")
                => UNCHANGED eye_history
           /\ (op = "check_liveness" /\ method = "both" /\ result'.eyes)
                => /\ Appended(eye_history, eye_history')
                   /\ Appended(head_pose_history, head_pose_history')
           /\ (op = "check_liveness" /\ method \notin {"blink", "movement", "both"})
                => /\ UNCHANGED <<eye_history, head_pose_history>>
                   /\ ~result'.value
                   /\ result'.confidence = 0]_vars

====
